---- MODULE Spec2Model ----
(***************************************************************************)
(* regis-tag-me: a React component registered as a custom element.         *)
(*                                                                         *)
(* The model covers registerWebComponent (the registry pre-check and the   *)
(* WebComponent class it defines), the three lifecycle callbacks of the    *)
(* class, parseAttributes / render, and the helpers toKebabCase and        *)
(* transformBoolean.  The host platform (custom element registry, upgrade  *)
(* reactions, insertion/removal, setAttribute) and the render engine       *)
(* (createRoot / render / unmount) are modelled by what they deliver to    *)
(* the class.                                                              *)
(***************************************************************************)
EXTENDS Integers, Sequences, FiniteSets, TLC

VARIABLES
    registry,            \* customElements: tag -> index of the defining call's class, 0 = not defined
    defineCalls,         \* tag -> number of customElements.define invocations
    active,              \* the element instances that exist in this run
    tagOf,               \* element -> its tag name
    upgraded,            \* element -> it is an instance of the WebComponent class
    reactions,           \* element -> queue of custom element reactions still to deliver
    attrs,               \* element -> DOM attribute name -> <<>> (absent) or <<string>>
    isConnected,         \* element -> Node.isConnected
    mountingPoint,       \* element -> this.mountingPoint (0 = undefined, else node id)
    stylesMountingPoint, \* element -> this.stylesMountingPoint (0 = undefined, else node id)
    root,                \* element -> this.root (0 = undefined, else root id)
    shadowDOM,           \* element -> this.shadowDOM (<<>> = undefined, else <<boolean>>)
    shadowRoot,          \* element -> this.shadowRoot exists
    lightChildren,       \* element -> nodes appended directly into the element
    shadowChildren,      \* element -> nodes appended into the shadow root
    roots,               \* element -> render roots created so far: [container, unmounts]
    connects,            \* element -> number of connectedCallback deliveries
    shadowFnCalls,       \* element -> number of calls of the options.shadowDOM function
    attachShadowCalls,   \* element -> number of attachShadow calls
    last                 \* the callback, registration or helper call executed by the latest step

hostVars == <<registry, defineCalls, active, tagOf, upgraded, reactions, attrs, isConnected>>
fieldVars == <<mountingPoint, stylesMountingPoint, root, shadowDOM, shadowRoot>>
domVars == <<lightChildren, shadowChildren, roots>>
obsVars == <<connects, shadowFnCalls, attachShadowCalls>>
vars == <<hostVars, fieldVars, domVars, obsVars, last>>

----------------------------------------------------------------------------
(* Bounds *)

MaxConnects == 3

MaxLen == 4

MaxObjects == 3

----------------------------------------------------------------------------
(* Characters and strings.  A name is a sequence of one-character strings. *)

LowerSeq ==
    <<"a","b","c","d","e","f","g","h","i","j","k","l","m",
      "n","o","p","q","r","s","t","u","v","w","x","y","z">>

UpperSeq ==
    <<"A","B","C","D","E","F","G","H","I","J","K","L","M",
      "N","O","P","Q","R","S","T","U","V","W","X","Y","Z">>

Lower == {LowerSeq[i] : i \in 1..26}

Upper == {UpperSeq[i] : i \in 1..26}

ToLowerChar(c) ==
    IF c \in Upper THEN LowerSeq[CHOOSE i \in 1..26 : UpperSeq[i] = c] ELSE c

toLowerCase(s) == [i \in 1..Len(s) |-> ToLowerChar(s[i])]

\* input.replaceAll(/([a-z])([A-Z])/gu, '$1-$2'), scanning from position i
RECURSIVE ReplaceLowerUpper(_, _)
ReplaceLowerUpper(s, i) ==
    IF i > Len(s) THEN <<>>
    ELSE IF i + 1 <= Len(s) /\ s[i] \in Lower /\ s[i + 1] \in Upper
         THEN <<s[i], "-", s[i + 1]>> \o ReplaceLowerUpper(s, i + 2)
         ELSE <<s[i]>> \o ReplaceLowerUpper(s, i + 1)

\* .replaceAll(/([A-Z])([A-Z][a-z])/gu, '$1-$2'), scanning from position i
RECURSIVE ReplaceUpperRun(_, _)
ReplaceUpperRun(s, i) ==
    IF i > Len(s) THEN <<>>
    ELSE IF i + 2 <= Len(s) /\ s[i] \in Upper /\ s[i + 1] \in Upper /\ s[i + 2] \in Lower
         THEN <<s[i], "-", s[i + 1], s[i + 2]>> \o ReplaceUpperRun(s, i + 3)
         ELSE <<s[i]>> \o ReplaceUpperRun(s, i + 1)

\* the earlier toKebabCase: input.replaceAll(/([a-z])([A-Z])/gu, '$1-$2').toLowerCase()
toKebabCaseOnePass(input) ==
    toLowerCase(ReplaceLowerUpper(input, 1))

\* toKebabCase without its second replaceAll
toKebabCaseLowerUpperOnly(input) ==
    toLowerCase(ReplaceLowerUpper(input, 1))

\* toKebabCase without its first replaceAll
toKebabCaseUpperRunOnly(input) ==
    toLowerCase(ReplaceUpperRun(input, 1))

toKebabCase(input) ==
    toLowerCase(ReplaceUpperRun(ReplaceLowerUpper(input, 1), 1))

----------------------------------------------------------------------------
(* JavaScript values: a type tag and a printed form. *)

JSUndefined == [type |-> "undefined", repr |-> "undefined"]

JSString(s) == [type |-> "string", repr |-> s]

JSNumber(r) == [type |-> "number", repr |-> r]

JSBoolean(b) == [type |-> "boolean", repr |-> IF b THEN "true" ELSE "false"]

Truthy(v) ==
    CASE v.type = "undefined" -> FALSE
      [] v.type = "boolean" -> v.repr = "true"
      [] v.type = "number" -> v.repr \notin {"0", "NaN"}
      [] OTHER -> v.repr # ""

\* The attribute strings an element carries in this model.
Values == {"", "false", "42"}

\* getAttribute results: <<>> is null (attribute absent), <<s>> the string s.
AttrValues == {<<>>} \cup {<<s>> : s \in Values}

transformBoolean(input) ==
    IF input = "false" THEN FALSE
    ELSE IF input = "" THEN TRUE
    ELSE input # ""

\* Number(s) of the attribute strings above, "NaN" when s is not numeric.
NumberOf(s) ==
    CASE s = "" -> "0"
      [] s = "42" -> "42"
      [] OTHER -> "NaN"

----------------------------------------------------------------------------
(* Validators: schema['~standard'].validate(input).  The input is a        *)
(* JavaScript value; a result is a success with a value, a failure with    *)
(* issues, or a Promise.  The validators are the schema expressions the    *)
(* documentation and the tests register components with.                   *)

JSNull == [type |-> "null", repr |-> "null"]

Success(v) == [kind |-> "value", value |-> v, issues |-> ""]

Failure(msg) == [kind |-> "issues", value |-> JSUndefined, issues |-> msg]

Pending == [kind |-> "promise", value |-> JSUndefined, issues |-> ""]

\* z.coerce.number(): Number(input) must not be NaN
CoerceNumber(input) ==
    LET n == CASE input.type = "null" -> "0"
               [] input.type = "undefined" -> "NaN"
               [] OTHER -> NumberOf(input.repr)
    IN  IF n = "NaN" THEN Failure("Expected number, received nan")
        ELSE Success(JSNumber(n))

\* z.string()
ZString(input) ==
    IF input.type = "string" THEN Success(input)
    ELSE IF input.type = "undefined" THEN Failure("Required")
    ELSE Failure("Expected string, received null")

\* attributeBoolean without .default('false')
attributeBooleanNoDefault(input) ==
    LET parsed == ZString(input)
    IN  IF parsed.kind # "value" THEN parsed
        ELSE Success(JSBoolean(parsed.value.repr = "" \/ parsed.value.repr = "true"))

\* export const attributeBoolean = z.string().default('false').transform(...)
attributeBoolean(input) ==
    LET defaulted == IF input.type = "undefined" THEN JSString("false") ELSE input
        parsed == ZString(defaulted)
    IN  IF parsed.kind # "value" THEN parsed
        ELSE Success(JSBoolean(parsed.value.repr = "" \/ parsed.value.repr = "true"))

validate(validator, input) ==
    CASE validator = "z.string().optional()" ->
            IF input.type = "undefined" THEN Success(JSUndefined) ELSE ZString(input)
      [] validator = "z.string().default('Guest')" ->
            IF input.type = "undefined" THEN Success(JSString("Guest")) ELSE ZString(input)
      [] validator = "z.coerce.number()" -> CoerceNumber(input)
      [] validator = "z.coerce.number().default(0)" ->
            IF input.type = "undefined" THEN Success(JSNumber("0")) ELSE CoerceNumber(input)
      [] validator = "z.string().transform(transformBoolean)" ->
            LET parsed == ZString(input)
            IN  IF parsed.kind # "value" THEN parsed
                ELSE Success(JSBoolean(transformBoolean(parsed.value.repr)))
      [] validator = "attributeBoolean" -> attributeBoolean(input)
      [] validator = "z.string().refine(async () => true).optional()" ->
            IF input.type = "undefined" THEN Success(JSUndefined)
            ELSE IF input.type = "string" THEN Pending
            ELSE ZString(input)

----------------------------------------------------------------------------
(* Registrations: the arguments of registerWebComponent.                   *)

useShadow == <<"u","s","e","S","h","a","d","o","w">>

count == <<"c","o","u","n","t">>

AllHooks == {"attributeChangedCallback", "connectedCallback", "disconnectedCallback"}

OptionAbsent == [kind |-> "absent", value |-> FALSE]

OptionBoolean(b) == [kind |-> "boolean", value |-> b]

\* shadowDOM: ({ useShadow }) => useShadow
OptionFunction == [kind |-> "function", value |-> FALSE]

\* (attributeSchema, options) of the registerWebComponent calls made in a run;
\* a schema lists its keys in Object.keys order.
Registrations ==
    << [schema |-> << [key |-> useShadow, validator |-> "attributeBoolean"],
                      [key |-> count, validator |-> "z.coerce.number()"] >>,
        shadowDOM |-> OptionFunction,
        mixin |-> AllHooks],
       [schema |-> << [key |-> useShadow, validator |-> "z.string().transform(transformBoolean)"],
                      [key |-> count, validator |-> "z.string().refine(async () => true).optional()"] >>,
        shadowDOM |-> OptionBoolean(TRUE),
        mixin |-> {}],
       [schema |-> << [key |-> useShadow, validator |-> "z.string().optional()"],
                      [key |-> count, validator |-> "z.coerce.number().default(0)"] >>,
        shadowDOM |-> OptionAbsent,
        mixin |-> AllHooks],
       [schema |-> << [key |-> count, validator |-> "z.coerce.number()"],
                      [key |-> useShadow, validator |-> "z.string().default('Guest')"] >>,
        shadowDOM |-> OptionBoolean(FALSE),
        mixin |-> {"connectedCallback"}] >>

Elements == {1, 2}

\* observedAttributes listing the names from the last key to the first
observedAttributesReversed(attributeSchema) ==
    [i \in 1..Len(attributeSchema) |->
        toKebabCase(attributeSchema[Len(attributeSchema) + 1 - i].key)]

\* public static get observedAttributes()
observedAttributes(attributeSchema) ==
    [i \in 1..Len(attributeSchema) |-> toKebabCase(attributeSchema[i].key)]

\* Every element of the model carries the attributes some registration observes.
AttrNames ==
    UNION { {observedAttributes(Registrations[c].schema)[i] :
                i \in 1..Len(Registrations[c].schema)} : c \in 1..Len(Registrations) }

\* The class of element e: the registration that defined its tag.
Class(e) == Registrations[registry[tagOf[e]]]

\* this.getAttribute(name) on an element whose attributes are a
getAttribute(a, name) ==
    IF a[name] = <<>> THEN JSNull ELSE JSString(a[name][1])

\* the attribute value handed to the validator as getAttribute returned it
NullishKept(v) == v

\* attributeValue ?? undefined
NullishToUndefined(v) ==
    IF v.type \in {"null", "undefined"} THEN JSUndefined ELSE v

----------------------------------------------------------------------------
(* The WebComponent class.                                                 *)

\* The result of a parseAttributes call: the record, or the error thrown;
\* validated lists the keys whose validator was invoked, in order.
Parsed(thrown, message, attributes, validated) ==
    [thrown |-> thrown, message |-> message,
     attributes |-> attributes, validated |-> validated]

\* parseAttributes with the result.issues check left out: the failed key is
\* skipped and the loop goes on
RECURSIVE ParseFromSkipping(_, _, _, _, _)
ParseFromSkipping(a, attributeSchema, i, attributes, validated) ==
    IF i > Len(attributeSchema) THEN Parsed("none", "", attributes, validated)
    ELSE LET attributeDomName == attributeSchema[i].key
             result == validate(attributeSchema[i].validator,
                                NullishToUndefined(
                                    getAttribute(a, toKebabCase(attributeDomName))))
             invoked == Append(validated, attributeDomName)
         IN  IF result.kind = "promise"
             THEN Parsed("TypeError", "Schema validation must be synchronous",
                         attributes, invoked)
             ELSE ParseFromSkipping(a, attributeSchema, i + 1,
                    IF result.kind = "issues" THEN attributes
                    ELSE attributes @@ (attributeDomName :> result.value),
                    invoked)

\* parseAttributes with the instanceof Promise check left out: the key of a
\* pending result gets result.value, which is undefined
RECURSIVE ParseFromAwaitless(_, _, _, _, _)
ParseFromAwaitless(a, attributeSchema, i, attributes, validated) ==
    IF i > Len(attributeSchema) THEN Parsed("none", "", attributes, validated)
    ELSE LET attributeDomName == attributeSchema[i].key
             result == validate(attributeSchema[i].validator,
                                NullishToUndefined(
                                    getAttribute(a, toKebabCase(attributeDomName))))
             invoked == Append(validated, attributeDomName)
         IN  IF result.kind = "issues"
             THEN Parsed("Error", result.issues, attributes, invoked)
             ELSE ParseFromAwaitless(a, attributeSchema, i + 1,
                    attributes @@ (attributeDomName :> result.value), invoked)

\* parseAttributes storing result.value under the key and under its DOM name too
RECURSIVE ParseFromBothNames(_, _, _, _, _)
ParseFromBothNames(a, attributeSchema, i, attributes, validated) ==
    IF i > Len(attributeSchema) THEN Parsed("none", "", attributes, validated)
    ELSE LET attributeDomName == attributeSchema[i].key
             result == validate(attributeSchema[i].validator,
                                NullishToUndefined(
                                    getAttribute(a, toKebabCase(attributeDomName))))
             invoked == Append(validated, attributeDomName)
         IN  IF result.kind = "promise"
             THEN Parsed("TypeError", "Schema validation must be synchronous",
                         attributes, invoked)
             ELSE IF result.kind = "issues"
             THEN Parsed("Error", result.issues, attributes, invoked)
             ELSE ParseFromBothNames(a, attributeSchema, i + 1,
                    attributes @@ (attributeDomName :> result.value)
                               @@ (toKebabCase(attributeDomName) :> result.value),
                    invoked)

\* parseAttributes validating every key before it looks at any result: at the
\* first failure the validators of the later keys have been invoked too
RECURSIVE ParseFromValidatingAll(_, _, _, _, _)
ParseFromValidatingAll(a, attributeSchema, i, attributes, validated) ==
    IF i > Len(attributeSchema) THEN Parsed("none", "", attributes, validated)
    ELSE LET attributeDomName == attributeSchema[i].key
             result == validate(attributeSchema[i].validator,
                                NullishToUndefined(
                                    getAttribute(a, toKebabCase(attributeDomName))))
             invoked == validated \o [j \in 1..(Len(attributeSchema) - i + 1) |->
                                        attributeSchema[i + j - 1].key]
         IN  IF result.kind = "promise"
             THEN Parsed("TypeError", "Schema validation must be synchronous",
                         attributes, invoked)
             ELSE IF result.kind = "issues"
             THEN Parsed("Error", result.issues, attributes, invoked)
             ELSE ParseFromValidatingAll(a, attributeSchema, i + 1,
                    attributes @@ (attributeDomName :> result.value),
                    Append(validated, attributeDomName))

\* private parseAttributes(): the loop over Object.keys(attributeSchema) from key i,
\* on an element whose attributes are a
RECURSIVE ParseFrom(_, _, _, _, _)
ParseFrom(a, attributeSchema, i, attributes, validated) ==
    IF i > Len(attributeSchema) THEN Parsed("none", "", attributes, validated)
    ELSE LET attributeDomName == attributeSchema[i].key
             attributeValue == getAttribute(a, toKebabCase(attributeDomName))
             result == validate(attributeSchema[i].validator,
                                NullishToUndefined(attributeValue))
             invoked == Append(validated, attributeDomName)
         IN  IF result.kind = "promise"
             THEN Parsed("TypeError", "Schema validation must be synchronous",
                         attributes, invoked)
             ELSE IF result.kind = "issues"
             THEN Parsed("Error", result.issues, attributes, invoked)
             ELSE ParseFrom(a, attributeSchema, i + 1,
                            attributes @@ (attributeDomName :> result.value), invoked)

\* The callbacks run after the host has changed the document, so they read attrs'.
parseAttributes(e, a) == ParseFrom(a, Class(e).schema, 1, <<>>, <<>>)

\* hasShadowDOM ending in options?.shadowDOM ?? true
hasShadowDOMByDefault(option, attributes) ==
    CASE option.kind = "function" -> Truthy(attributes[useShadow])
      [] option.kind = "boolean" -> option.value
      [] OTHER -> TRUE

\* const hasShadowDOM = (attributes) => ...
hasShadowDOM(option, attributes) ==
    CASE option.kind = "function" -> Truthy(attributes[useShadow])
      [] option.kind = "boolean" -> option.value
      [] OTHER -> FALSE

\* What a callback did: the steps it took in order, what it threw, the
\* parseAttributes call it made and the root.render call it made (<<>> if none).
Outcome(kind, e, args, trace, thrown, parsed, render) ==
    [kind |-> kind, elem |-> e, args |-> args, trace |-> trace,
     thrown |-> thrown, parsed |-> parsed, render |-> render]

NoParse == Parsed("none", "", <<>>, <<>>)

\* super.<hook>?.(): the mixin's hook, when the mixin defines it
SuperCall(e, hook) ==
    IF hook \in Class(e).mixin THEN <<"super." \o hook>> ELSE <<>>

\* render with containerElement and stylesContainer interchanged
RenderCallSwappedTargets(e, r, rootList, mp, smp, sd, parsedAttributes) ==
    [root |-> r,
     props |-> parsedAttributes,
     containerElement |-> smp,
     element |-> e,
     hasShadowDom |-> (sd = <<TRUE>>),
     stylesContainer |-> mp,
     unmounted |-> rootList[r].unmounts > 0]

\* render with <Component /> given no props
RenderCallWithoutProps(e, r, rootList, mp, smp, sd, parsedAttributes) ==
    [root |-> r,
     props |-> <<>>,
     containerElement |-> mp,
     element |-> e,
     hasShadowDom |-> (sd = <<TRUE>>),
     stylesContainer |-> smp,
     unmounted |-> rootList[r].unmounts > 0]

\* private render(parsedAttributes): the root.render call it makes with the
\* instance fields as they are at the call
RenderCall(e, r, rootList, mp, smp, sd, parsedAttributes) ==
    [root |-> r,
     props |-> parsedAttributes,
     containerElement |-> mp,
     element |-> e,
     hasShadowDom |-> (sd = <<TRUE>>),
     stylesContainer |-> smp,
     unmounted |-> rootList[r].unmounts > 0]

\* this.root ??= createRoot(root): a root is created on the first connection only
createRootOnce(e, container) ==
    IF roots[e] # <<>> THEN roots[e]
    ELSE Append(roots[e], [container |-> container, unmounts |-> 0])

\* this.root = createRoot(root): the render roots of e with a new one, bound to
\* container, added
createRoot(e, container) ==
    Append(roots[e], [container |-> container, unmounts |-> 0])

\* connectedCallback calling attachShadow whenever this.shadowDOM is true
connectedCallbackAttachingAgain(e) ==
    LET parsedAttributes == parseAttributes(e, attrs'[e])
    IN  /\ connects' = [connects EXCEPT ![e] = @ + 1]
        /\ IF parsedAttributes.thrown # "none"
           THEN /\ last' = Outcome("connectedCallback", e, <<>>, <<"parseAttributes">>,
                                   parsedAttributes.thrown, parsedAttributes, <<>>)
                /\ UNCHANGED <<fieldVars, domVars, shadowFnCalls, attachShadowCalls>>
           ELSE LET option == Class(e).shadowDOM
                    decided == hasShadowDOM(option, parsedAttributes.attributes)
                    attach == decided
                    boundary == shadowRoot[e] \/ attach
                    created == Len(lightChildren[e]) + Len(shadowChildren[e])
                    rootNode == created + 1
                    stylesContainer == created + 2
                    rootList == createRoot(e, rootNode)
                    r == Len(rootList)
                IN  /\ shadowDOM' = [shadowDOM EXCEPT ![e] = <<decided>>]
                    /\ shadowFnCalls' = [shadowFnCalls EXCEPT
                            ![e] = IF option.kind = "function" THEN @ + 1 ELSE @]
                    /\ shadowRoot' = [shadowRoot EXCEPT ![e] = boundary]
                    /\ attachShadowCalls' = [attachShadowCalls EXCEPT
                            ![e] = IF attach THEN @ + 1 ELSE @]
                    /\ mountingPoint' = [mountingPoint EXCEPT ![e] = rootNode]
                    /\ roots' = [roots EXCEPT ![e] = rootList]
                    /\ root' = [root EXCEPT ![e] = r]
                    /\ stylesMountingPoint' = [stylesMountingPoint EXCEPT ![e] = stylesContainer]
                    /\ IF boundary
                       THEN /\ shadowChildren' = [shadowChildren EXCEPT
                                    ![e] = @ \o <<stylesContainer, rootNode>>]
                            /\ UNCHANGED lightChildren
                       ELSE /\ lightChildren' = [lightChildren EXCEPT
                                    ![e] = @ \o <<stylesContainer, rootNode>>]
                            /\ UNCHANGED shadowChildren
                    /\ last' = Outcome("connectedCallback", e, <<>>,
                            <<"parseAttributes", "hasShadowDOM">>
                            \o (IF attach THEN <<"attachShadow">> ELSE <<>>)
                            \o <<"createElement", "createRoot", "append", "render">>
                            \o SuperCall(e, "connectedCallback"),
                            "none", parsedAttributes,
                            <<RenderCall(e, r, rootList, rootNode, stylesContainer,
                                         <<decided>>, parsedAttributes.attributes)>>)

\* connectedCallback appending the targets before it calls createRoot
connectedCallbackAppendingFirst(e) ==
    LET parsedAttributes == parseAttributes(e, attrs'[e])
    IN  /\ connects' = [connects EXCEPT ![e] = @ + 1]
        /\ IF parsedAttributes.thrown # "none"
           THEN /\ last' = Outcome("connectedCallback", e, <<>>, <<"parseAttributes">>,
                                   parsedAttributes.thrown, parsedAttributes, <<>>)
                /\ UNCHANGED <<fieldVars, domVars, shadowFnCalls, attachShadowCalls>>
           ELSE LET option == Class(e).shadowDOM
                    decided == hasShadowDOM(option, parsedAttributes.attributes)
                    attach == ~shadowRoot[e] /\ decided
                    boundary == shadowRoot[e] \/ attach
                    created == Len(lightChildren[e]) + Len(shadowChildren[e])
                    rootNode == created + 1
                    stylesContainer == created + 2
                    rootList == createRoot(e, rootNode)
                    r == Len(rootList)
                IN  /\ shadowDOM' = [shadowDOM EXCEPT ![e] = <<decided>>]
                    /\ shadowFnCalls' = [shadowFnCalls EXCEPT
                            ![e] = IF option.kind = "function" THEN @ + 1 ELSE @]
                    /\ shadowRoot' = [shadowRoot EXCEPT ![e] = boundary]
                    /\ attachShadowCalls' = [attachShadowCalls EXCEPT
                            ![e] = IF attach THEN @ + 1 ELSE @]
                    /\ mountingPoint' = [mountingPoint EXCEPT ![e] = rootNode]
                    /\ roots' = [roots EXCEPT ![e] = rootList]
                    /\ root' = [root EXCEPT ![e] = r]
                    /\ stylesMountingPoint' = [stylesMountingPoint EXCEPT ![e] = stylesContainer]
                    /\ IF boundary
                       THEN /\ shadowChildren' = [shadowChildren EXCEPT
                                    ![e] = @ \o <<stylesContainer, rootNode>>]
                            /\ UNCHANGED lightChildren
                       ELSE /\ lightChildren' = [lightChildren EXCEPT
                                    ![e] = @ \o <<stylesContainer, rootNode>>]
                            /\ UNCHANGED shadowChildren
                    /\ last' = Outcome("connectedCallback", e, <<>>,
                            <<"parseAttributes", "hasShadowDOM">>
                            \o (IF attach THEN <<"attachShadow">> ELSE <<>>)
                            \o <<"createElement", "append", "createRoot", "render">>
                            \o SuperCall(e, "connectedCallback"),
                            "none", parsedAttributes,
                            <<RenderCall(e, r, rootList, rootNode, stylesContainer,
                                         <<decided>>, parsedAttributes.attributes)>>)

\* public connectedCallback()
connectedCallback(e) ==
    LET parsedAttributes == parseAttributes(e, attrs'[e])
    IN  /\ connects' = [connects EXCEPT ![e] = @ + 1]
        /\ IF parsedAttributes.thrown # "none"
           THEN /\ last' = Outcome("connectedCallback", e, <<>>, <<"parseAttributes">>,
                                   parsedAttributes.thrown, parsedAttributes, <<>>)
                /\ UNCHANGED <<fieldVars, domVars, shadowFnCalls, attachShadowCalls>>
           ELSE LET option == Class(e).shadowDOM
                    decided == hasShadowDOM(option, parsedAttributes.attributes)
                    attach == ~shadowRoot[e] /\ decided
                    boundary == shadowRoot[e] \/ attach
                    created == Len(lightChildren[e]) + Len(shadowChildren[e])
                    rootNode == created + 1
                    stylesContainer == created + 2
                    rootList == createRoot(e, rootNode)
                    r == Len(rootList)
                IN  /\ shadowDOM' = [shadowDOM EXCEPT ![e] = <<decided>>]
                    /\ shadowFnCalls' = [shadowFnCalls EXCEPT
                            ![e] = IF option.kind = "function" THEN @ + 1 ELSE @]
                    /\ shadowRoot' = [shadowRoot EXCEPT ![e] = boundary]
                    /\ attachShadowCalls' = [attachShadowCalls EXCEPT
                            ![e] = IF attach THEN @ + 1 ELSE @]
                    /\ mountingPoint' = [mountingPoint EXCEPT ![e] = rootNode]
                    /\ roots' = [roots EXCEPT ![e] = rootList]
                    /\ root' = [root EXCEPT ![e] = r]
                    /\ stylesMountingPoint' = [stylesMountingPoint EXCEPT ![e] = stylesContainer]
                    /\ IF boundary
                       THEN /\ shadowChildren' = [shadowChildren EXCEPT
                                    ![e] = @ \o <<stylesContainer, rootNode>>]
                            /\ UNCHANGED lightChildren
                       ELSE /\ lightChildren' = [lightChildren EXCEPT
                                    ![e] = @ \o <<stylesContainer, rootNode>>]
                            /\ UNCHANGED shadowChildren
                    /\ last' = Outcome("connectedCallback", e, <<>>,
                            <<"parseAttributes", "hasShadowDOM">>
                            \o (IF attach THEN <<"attachShadow">> ELSE <<>>)
                            \o <<"createElement", "createRoot", "append", "render">>
                            \o SuperCall(e, "connectedCallback"),
                            "none", parsedAttributes,
                            <<RenderCall(e, r, rootList, rootNode, stylesContainer,
                                         <<decided>>, parsedAttributes.attributes)>>)

\* if (!this.isConnected) return;
AttributeChangeActsWhenConnected(e) == isConnected[e]

\* if (!this.isConnected || !this.mountingPoint) return;
AttributeChangeActs(e) == isConnected[e] /\ mountingPoint[e] # 0

\* attributeChangedCallback deciding this.shadowDOM again, as connectedCallback does
attributeChangedCallbackRedeciding(e, name, oldValue, newValue, engineRejects) ==
    IF ~AttributeChangeActs(e)
    THEN /\ last' = Outcome("attributeChangedCallback", e, <<name, newValue>>,
                            <<>>, "none", NoParse, <<>>)
         /\ UNCHANGED <<fieldVars, domVars, obsVars>>
    ELSE LET parsedAttributes == parseAttributes(e, attrs'[e])
         IN  IF parsedAttributes.thrown # "none"
             THEN /\ last' = Outcome("attributeChangedCallback", e,
                                     <<name, newValue>>, <<"parseAttributes">>,
                                     parsedAttributes.thrown, parsedAttributes, <<>>)
                  /\ UNCHANGED <<fieldVars, domVars, obsVars>>
             ELSE LET option == Class(e).shadowDOM
                      decided == hasShadowDOM(option, parsedAttributes.attributes)
                      call == RenderCall(e, root[e], roots[e], mountingPoint[e],
                                         stylesMountingPoint[e], <<decided>>,
                                         parsedAttributes.attributes)
                  IN  /\ shadowDOM' = [shadowDOM EXCEPT ![e] = <<decided>>]
                      /\ shadowFnCalls' = [shadowFnCalls EXCEPT
                              ![e] = IF option.kind = "function" THEN @ + 1 ELSE @]
                      /\ last' = Outcome("attributeChangedCallback", e,
                              <<name, newValue>>,
                              <<"parseAttributes", "hasShadowDOM", "render">>
                              \o SuperCall(e, "attributeChangedCallback"),
                              "none", parsedAttributes, <<call>>)
                      /\ UNCHANGED <<mountingPoint, stylesMountingPoint, root,
                                     shadowRoot, domVars, connects, attachShadowCalls>>

\* public attributeChangedCallback(name, oldValue, newValue); engineRejects says
\* whether the render engine throws when asked to render into an unmounted root.
\* The outcome records the name and newValue arguments.
attributeChangedCallback(e, name, oldValue, newValue, engineRejects) ==
    IF ~AttributeChangeActs(e)
    THEN /\ last' = Outcome("attributeChangedCallback", e, <<name, newValue>>,
                            <<>>, "none", NoParse, <<>>)
         /\ UNCHANGED <<fieldVars, domVars, obsVars>>
    ELSE LET parsedAttributes == parseAttributes(e, attrs'[e])
         IN  IF parsedAttributes.thrown # "none"
             THEN /\ last' = Outcome("attributeChangedCallback", e,
                                     <<name, newValue>>, <<"parseAttributes">>,
                                     parsedAttributes.thrown, parsedAttributes, <<>>)
                  /\ UNCHANGED <<fieldVars, domVars, obsVars>>
             ELSE LET call == RenderCall(e, root[e], roots[e], mountingPoint[e],
                                         stylesMountingPoint[e], shadowDOM[e],
                                         parsedAttributes.attributes)
                      rejected == root[e] # 0 /\ call.unmounted /\ engineRejects
                  IN  /\ last' = Outcome("attributeChangedCallback", e,
                              <<name, newValue>>,
                              <<"parseAttributes">>
                              \o (IF root[e] = 0 THEN <<>> ELSE <<"render">>)
                              \o (IF rejected THEN <<>>
                                  ELSE SuperCall(e, "attributeChangedCallback")),
                              IF rejected THEN "UnmountedRootError" ELSE "none",
                              parsedAttributes,
                              IF root[e] = 0 THEN <<>> ELSE <<call>>)
                      /\ UNCHANGED <<fieldVars, domVars, obsVars>>

\* disconnectedCallback without this.root?.unmount()
unmountSkipped(e) == roots[e]

\* unmount called on the first render root of e instead of this.root
unmountFirstRoot(e) ==
    IF root[e] = 0 THEN roots[e]
    ELSE [roots[e] EXCEPT ![1].unmounts = @ + 1]

\* this.root?.unmount(): the render roots of e after the call
unmount(e) ==
    IF root[e] = 0 THEN roots[e]
    ELSE [roots[e] EXCEPT ![root[e]].unmounts = @ + 1]

\* disconnectedCallback with this.root.unmount() in place of this.root?.unmount():
\* without a render root the call throws before the hook
disconnectedCallbackUnguarded(e) ==
    /\ roots' = [roots EXCEPT ![e] = unmount(e)]
    /\ last' = IF root[e] = 0
               THEN Outcome("disconnectedCallback", e, <<>>, <<>>, "TypeError", NoParse, <<>>)
               ELSE Outcome("disconnectedCallback", e, <<>>,
                            <<"unmount">> \o SuperCall(e, "disconnectedCallback"),
                            "none", NoParse, <<>>)
    /\ UNCHANGED <<fieldVars, lightChildren, shadowChildren, obsVars>>

\* disconnectedCallback with the render root kept in a field of the class: the
\* call unmounts the current root of every instance
disconnectedCallbackUnmountingAll(e) ==
    /\ roots' = [o \in Elements |-> unmount(o)]
    /\ last' = Outcome("disconnectedCallback", e, <<>>,
            (IF root[e] = 0 THEN <<>> ELSE <<"unmount">>)
            \o SuperCall(e, "disconnectedCallback"),
            "none", NoParse, <<>>)
    /\ UNCHANGED <<fieldVars, lightChildren, shadowChildren, obsVars>>

\* disconnectedCallback with super.disconnectedCallback?.() as its first statement
disconnectedCallbackHookFirst(e) ==
    /\ roots' = [roots EXCEPT ![e] = unmount(e)]
    /\ last' = Outcome("disconnectedCallback", e, <<>>,
            SuperCall(e, "disconnectedCallback")
            \o (IF root[e] = 0 THEN <<>> ELSE <<"unmount">>),
            "none", NoParse, <<>>)
    /\ UNCHANGED <<fieldVars, lightChildren, shadowChildren, obsVars>>

\* public disconnectedCallback()
disconnectedCallback(e) ==
    /\ roots' = [roots EXCEPT ![e] = unmount(e)]
    /\ last' = Outcome("disconnectedCallback", e, <<>>,
            (IF root[e] = 0 THEN <<>> ELSE <<"unmount">>)
            \o SuperCall(e, "disconnectedCallback"),
            "none", NoParse, <<>>)
    /\ UNCHANGED <<fieldVars, lightChildren, shadowChildren, obsVars>>

----------------------------------------------------------------------------
(* Registration.                                                           *)

\* the customElements.get check left out
AlwaysDefine(tagName) == TRUE

\* if (!customElements.get(tagName))
NotYetDefined(tagName) == registry[tagName] = 0

\* export const registerWebComponent = (tagName, Component, attributeSchema, options);
\* c is the index of the call's arguments in Registrations.  customElements.define
\* throws for a name that is already defined.  The outcome records the tag name.
registerWebComponent(tagName, c) ==
    /\ IF NotYetDefined(tagName)
       THEN /\ defineCalls' = [defineCalls EXCEPT ![tagName] = @ + 1]
            /\ IF registry[tagName] = 0
               THEN /\ registry' = [registry EXCEPT ![tagName] = c]
                    /\ last' = Outcome("registerWebComponent", 0, <<tagName>>,
                                       <<"customElements.get", "customElements.define">>,
                                       "none", NoParse, <<>>)
               ELSE /\ UNCHANGED registry
                    /\ last' = Outcome("registerWebComponent", 0, <<tagName>>,
                                       <<"customElements.get", "customElements.define">>,
                                       "NotSupportedError", NoParse, <<>>)
       ELSE /\ last' = Outcome("registerWebComponent", 0, <<tagName>>,
                               <<"customElements.get">>, "none", NoParse, <<>>)
            /\ UNCHANGED <<registry, defineCalls>>
    /\ UNCHANGED <<active, tagOf, upgraded, reactions, attrs, isConnected>>
    /\ UNCHANGED <<fieldVars, domVars, obsVars>>

----------------------------------------------------------------------------
(* The host platform.                                                      *)

Reaction(kind, name, oldValue, newValue) ==
    [kind |-> kind, name |-> name, oldValue |-> oldValue, newValue |-> newValue]

\* the attributeChangedCallback reactions of an upgrade: one per observed
\* attribute the element carries
RECURSIVE AttributeReactions(_, _, _)
AttributeReactions(e, names, i) ==
    IF i > Len(names) THEN <<>>
    ELSE (IF attrs[e][names[i]] = <<>> THEN <<>>
          ELSE <<Reaction("attributeChanged", names[i], <<>>, attrs[e][names[i]])>>)
         \o AttributeReactions(e, names, i + 1)

\* An element whose tag has been defined becomes an instance of the class
\* (created after the definition, or upgraded): the platform queues one
\* attributeChangedCallback per observed attribute present and, when the element
\* is in the document, a connectedCallback.
Upgrade(e) ==
    /\ e \in active
    /\ ~upgraded[e]
    /\ registry[tagOf[e]] # 0
    /\ upgraded' = [upgraded EXCEPT ![e] = TRUE]
    /\ reactions' = [reactions EXCEPT ![e] =
            AttributeReactions(e, observedAttributes(Class(e).schema), 1)
            \o (IF isConnected[e] THEN <<Reaction("connected", <<>>, <<>>, <<>>)>>
                ELSE <<>>)]
    /\ last' = Outcome("upgrade", e, <<>>, <<>>, "none", NoParse, <<>>)
    /\ UNCHANGED <<registry, defineCalls, active, tagOf, attrs, isConnected>>
    /\ UNCHANGED <<fieldVars, domVars, obsVars>>

\* The platform delivers the next queued reaction of e.
DeliverReaction(e) ==
    /\ e \in active
    /\ reactions[e] # <<>>
    /\ reactions' = [reactions EXCEPT ![e] = Tail(@)]
    /\ UNCHANGED attrs
    /\ LET reaction == Head(reactions[e])
       IN  IF reaction.kind = "connected"
           THEN connectedCallback(e)
           ELSE attributeChangedCallback(e, reaction.name, reaction.oldValue,
                                         reaction.newValue, FALSE)
    /\ UNCHANGED <<registry, defineCalls, active, tagOf, upgraded, isConnected>>

Settled(e) == e \in active /\ upgraded[e] /\ reactions[e] = <<>>

\* The element is inserted into the document.
HostInsert(e) ==
    /\ Settled(e)
    /\ ~isConnected[e]
    /\ connects[e] < MaxConnects
    /\ isConnected' = [isConnected EXCEPT ![e] = TRUE]
    /\ UNCHANGED attrs
    /\ connectedCallback(e)
    /\ UNCHANGED <<registry, defineCalls, active, tagOf, upgraded, reactions>>

\* The element is removed from the document.
HostRemove(e) ==
    /\ Settled(e)
    /\ isConnected[e]
    /\ isConnected' = [isConnected EXCEPT ![e] = FALSE]
    /\ disconnectedCallback(e)
    /\ UNCHANGED <<registry, defineCalls, active, tagOf, upgraded, reactions, attrs>>

\* setAttribute(name, value) with newValue = <<value>>, removeAttribute(name) with
\* newValue = <<>>, on an observed attribute.
HostSetAttribute(e, name, newValue, engineRejects) ==
    /\ Settled(e)
    /\ name \in {observedAttributes(Class(e).schema)[i] : i \in 1..Len(Class(e).schema)}
    /\ ~(newValue = <<>> /\ attrs[e][name] = <<>>)
    /\ attrs' = [attrs EXCEPT ![e][name] = newValue]
    /\ attributeChangedCallback(e, name, attrs[e][name], newValue, engineRejects)
    /\ UNCHANGED <<registry, defineCalls, active, tagOf, upgraded, reactions, isConnected>>

----------------------------------------------------------------------------
(* Specifications.                                                         *)

InitElements(tagNames, instances, tags) ==
    /\ registry = [t \in tagNames |-> 0]
    /\ defineCalls = [t \in tagNames |-> 0]
    /\ active = instances
    /\ tagOf = tags
    /\ upgraded = [e \in Elements |-> FALSE]
    /\ reactions = [e \in Elements |-> <<>>]
    /\ attrs \in [Elements -> [AttrNames -> AttrValues]]
    /\ \A e \in Elements \ instances : \A n \in AttrNames : attrs[e][n] = <<>>
    /\ isConnected \in [Elements -> BOOLEAN]
    /\ \A e \in Elements \ instances : ~isConnected[e]
    /\ mountingPoint = [e \in Elements |-> 0]
    /\ stylesMountingPoint = [e \in Elements |-> 0]
    /\ root = [e \in Elements |-> 0]
    /\ shadowDOM = [e \in Elements |-> <<>>]
    /\ shadowRoot = [e \in Elements |-> FALSE]
    /\ lightChildren = [e \in Elements |-> <<>>]
    /\ shadowChildren = [e \in Elements |-> <<>>]
    /\ roots = [e \in Elements |-> <<>>]
    /\ connects = [e \in Elements |-> 0]
    /\ shadowFnCalls = [e \in Elements |-> 0]
    /\ attachShadowCalls = [e \in Elements |-> 0]
    /\ last = Outcome("none", 0, <<>>, <<>>, "none", NoParse, <<>>)

\* One element of tag x-y, created before or after its tag is defined, with any
\* attributes, in the document or not.
Init == InitElements({"x-y"}, {1}, [e \in Elements |-> "x-y"])

Register == \E t \in DOMAIN registry : \E c \in 1..Len(Registrations) : registerWebComponent(t, c)

Upgrading == \E e \in active : Upgrade(e)

Reacting == \E e \in active : DeliverReaction(e)

Inserting == \E e \in active : HostInsert(e)

Removing == \E e \in active : HostRemove(e)

\* The render engine is a black box: asked to render into a root that was
\* unmounted it may throw or not; a live root accepts the render.
EngineChoices(e) ==
    IF root[e] # 0 /\ roots[e][root[e]].unmounts > 0 THEN BOOLEAN ELSE {FALSE}

SettingAttribute ==
    \E e \in active : \E name \in AttrNames : \E newValue \in AttrValues :
        \E engineRejects \in EngineChoices(e) :
            HostSetAttribute(e, name, newValue, engineRejects)

Next ==
    \/ Register
    \/ Upgrading
    \/ Reacting
    \/ Inserting
    \/ Removing
    \/ SettingAttribute

Spec == Init /\ [][Next]_vars

\* Setup code registering three tag names, before any element exists.
InitRegistry ==
    InitElements({"x-y", "a-b", "my-greeting"}, {}, [e \in Elements |-> "x-y"])

SpecRegistry == InitRegistry /\ [][Register]_vars

\* Two elements, both of tag x-y or one of tag x-y and one of tag a-b, created
\* without attributes, whose count attribute is set and removed.
InitPair ==
    /\ \E t \in {"x-y", "a-b"} :
          InitElements({"x-y", t}, Elements, [e \in Elements |-> IF e = 1 THEN "x-y" ELSE t])
    /\ \A e \in Elements : \A n \in AttrNames : attrs[e][n] = <<>>

\* The two elements are inserted MaxConnects times between them.
InsertingEither ==
    \E e \in active : connects[1] + connects[2] < MaxConnects /\ HostInsert(e)

SettingCount ==
    \E e \in active : \E newValue \in {<<>>, <<"42">>} :
        \E engineRejects \in EngineChoices(e) :
            HostSetAttribute(e, count, newValue, engineRejects)

NextPair ==
    \/ Register
    \/ Upgrading
    \/ Reacting
    \/ InsertingEither
    \/ Removing
    \/ SettingCount

SpecPair == InitPair /\ [][NextPair]_vars

\* The helpers called on their own, as the unit tests call them.

\* the characters of the logical names
NameChars == {"a", "A", "B", "1"}

useABTest == <<"u","s","e","A","B","T","e","s","t">>

firstName == <<"f","i","r","s","t","N","a","m","e">>

camelCaseString == <<"c","a","m","e","l","C","a","s","e","S","t","r","i","n","g">>

useAB == <<"u","s","e","A","B">>

useAb == <<"u","s","e","A","b">>

\* the names the documentation and the unit test convert, and two keys that
\* differ in the case of one letter
ExampleNames == {useABTest, firstName, camelCaseString, useAB, useAb}

\* identifier-style names of up to MaxLen characters, and the example names
Names ==
    {n \in UNION {[1..k -> NameChars] : k \in 1..MaxLen} : n[1] # "1"}
    \cup ExampleNames

\* the attribute strings handed to the boolean helpers
BooleanInputs == {"", "true", "false", "1", "hello", "some-value"}

HelperCall(kind, input, output) ==
    [kind |-> kind, elem |-> 0, input |-> input, output |-> output]

CallToKebabCase ==
    /\ \E n \in Names : last' = HelperCall("toKebabCase", n, toKebabCase(n))
    /\ UNCHANGED <<hostVars, fieldVars, domVars, obsVars>>

CallToKebabCaseOnePass ==
    /\ \E n \in Names :
          last' = HelperCall("toKebabCaseOnePass", n, toKebabCaseOnePass(n))
    /\ UNCHANGED <<hostVars, fieldVars, domVars, obsVars>>

CallTransformBoolean ==
    /\ \E s \in BooleanInputs :
          last' = HelperCall("transformBoolean", s, transformBoolean(s))
    /\ UNCHANGED <<hostVars, fieldVars, domVars, obsVars>>

\* attributeBoolean['~standard'].validate(v) for undefined and for a string
CallAttributeBoolean ==
    /\ \E v \in {JSUndefined} \cup {JSString(s) : s \in BooleanInputs} :
          last' = HelperCall("attributeBoolean", v, attributeBoolean(v))
    /\ UNCHANGED <<hostVars, fieldVars, domVars, obsVars>>

\* The context module rendered on its own, as its unit test renders it.  A node
\* is named by a string; a context object has an identity (id) and four fields.

ContextObject(id, containerElement, element, hasShadowDom, stylesContainer) ==
    [id |-> id, containerElement |-> containerElement, element |-> element,
     hasShadowDom |-> hasShadowDom, stylesContainer |-> stylesContainer]

\* createContext's default with hasShadowDom: false
webComponentContextLightDefault ==
    ContextObject(0, "document.body", "document.body", FALSE, "document.head")

\* export const webComponentContext = createContext({...}): the default value,
\* one object created when the module loads
webComponentContext ==
    ContextObject(0, "document.body", "document.body", TRUE, "document.head")

\* the props a WebComponentContextProvider is rendered with
ProviderProps ==
    [containerElement : {"testContainer", "document.body"},
     element : {"testElement", "newElement"},
     hasShadowDom : BOOLEAN,
     stylesContainer : {"testStylesContainer", "document.head"}]

\* the dependency array of the provider's useMemo
Dependencies(props) ==
    <<props.containerElement, props.element, props.hasShadowDom, props.stylesContainer>>

\* useMemo computing a new object on every render
useMemoEveryRender(memo, props) ==
    [deps |-> Dependencies(props),
     value |-> ContextObject(IF memo = <<>> THEN 1 ELSE memo[1].value.id + 1,
                             props.containerElement, props.element,
                             props.hasShadowDom, props.stylesContainer)]

\* useMemo(() => ({...}), [containerElement, element, hasShadowDom, stylesContainer]):
\* memo is <<>> on the first render of the provider, else the cell of its last render
useMemo(memo, props) ==
    IF memo # <<>> /\ memo[1].deps = Dependencies(props) THEN memo[1]
    ELSE [deps |-> Dependencies(props),
          value |-> ContextObject(IF memo = <<>> THEN 1 ELSE memo[1].value.id + 1,
                                  props.containerElement, props.element,
                                  props.hasShadowDom, props.stylesContainer)]

\* export const useWebComponentContext = () => useContext(webComponentContext);
\* provided is <<>> outside every provider, else the value of the nearest one
useWebComponentContext(provided) ==
    IF provided = <<>> THEN webComponentContext ELSE provided[1]

\* A render of the provider with a consumer below it: the memo cell it keeps,
\* whether the cell was computed in this render, what the consumer reads.
ProviderRender(props, memo, cell) ==
    [kind |-> "WebComponentContextProvider", elem |-> 0, input |-> props,
     memo |-> cell, recomputed |-> (memo = <<>> \/ memo[1] # cell),
     output |-> useWebComponentContext(<<cell.value>>)]

\* render(<WebComponentContextProvider {...props}><TestComponent /></...>)
MountProvider ==
    /\ last.kind # "WebComponentContextProvider"
    /\ \E props \in ProviderProps :
          last' = ProviderRender(props, <<>>, useMemo(<<>>, props))
    /\ UNCHANGED <<hostVars, fieldVars, domVars, obsVars>>

\* rerender(<WebComponentContextProvider {...props}>...) of the mounted provider
RerenderProvider ==
    /\ last.kind = "WebComponentContextProvider"
    /\ \E props \in ProviderProps :
          LET cell == useMemo(<<last.memo>>, props)
          IN  /\ cell.value.id <= MaxObjects
              /\ last' = ProviderRender(props, <<last.memo>>, cell)
    /\ UNCHANGED <<hostVars, fieldVars, domVars, obsVars>>

\* renderHook(() => useWebComponentContext()) with no provider above
ReadContextOutsideProvider ==
    /\ last' = HelperCall("useWebComponentContext", <<>>, useWebComponentContext(<<>>))
    /\ UNCHANGED <<hostVars, fieldVars, domVars, obsVars>>

InitHelpers == InitElements({"x-y"}, {}, [e \in Elements |-> "x-y"])

NextHelpers ==
    \/ CallToKebabCase
    \/ CallToKebabCaseOnePass
    \/ CallTransformBoolean
    \/ CallAttributeBoolean
    \/ MountProvider
    \/ RerenderProvider
    \/ ReadContextOutsideProvider

SpecHelpers == InitHelpers /\ [][NextHelpers]_vars

----------------------------------------------------------------------------
(* What the claims speak of.                                               *)

\* the latest step ran callback kind on element e
Ran(kind, e) == last.kind = kind /\ last.elem = e

Keys(e) == {Class(e).schema[i].key : i \in 1..Len(Class(e).schema)}

\* what the validator of the i-th key of e returns for the attributes a
ResultFor(e, a, i) ==
    validate(Class(e).schema[i].validator,
             NullishToUndefined(getAttribute(a, toKebabCase(Class(e).schema[i].key))))

\* the kind of the first result for the attributes a, in key order, that is not a value
FirstFailureFor(e, a) ==
    LET bad == {i \in 1..Len(Class(e).schema) : ResultFor(e, a, i).kind # "value"}
    IN  IF bad = {} THEN "none"
        ELSE ResultFor(e, a, CHOOSE i \in bad : \A j \in bad : i <= j).kind

\* the same for the attributes e carries now
ResultNow(e, i) == ResultFor(e, attrs[e], i)

FirstFailure(e) == FirstFailureFor(e, attrs[e])

DecodeSucceeds(e) == FirstFailure(e) = "none"

\* the typed record of the attributes e carries now
RecordNow(e) ==
    [k \in Keys(e) |->
        ResultNow(e, CHOOSE i \in 1..Len(Class(e).schema) : Class(e).schema[i].key = k).value]

Has(trace, step) == step \in {trace[i] : i \in 1..Len(trace)}

InTrace(step) == Has(last.trace, step)

Decoded(e) == last.elem = e /\ InTrace("parseAttributes")

----------------------------------------------------------------------------
(* C1..C10 *)

\* C1: customElements.define is invoked exactly once per tag name, by the first
\* registerWebComponent call for that name; every later call for the name invokes
\* define zero times, throws nothing and leaves the registered class as it is;
\* a call leaves the other tag names alone.
C1_DefineOncePerTag ==
    [][\A t \in DOMAIN registry :
          (last'.kind = "registerWebComponent" /\ last'.args = <<t>>) =>
              /\ last'.thrown = "none"
              /\ \A u \in DOMAIN registry \ {t} :
                    registry'[u] = registry[u] /\ defineCalls'[u] = defineCalls[u]
              /\ IF registry[t] = 0 /\ defineCalls[t] = 0
                 THEN registry'[t] # 0 /\ defineCalls'[t] = 1
                 ELSE registry'[t] = registry[t] /\ defineCalls'[t] = 1
                      /\ defineCalls[t] = 1]_vars

\* a later call for a defined name found the name in the registry, with a second
\* name defined by another class
C1_Witness ==
    /\ last.kind = "registerWebComponent"
    /\ last.trace = <<"customElements.get">>
    /\ registry[last.args[1]] # 0
    /\ \E u \in DOMAIN registry :
          u # last.args[1] /\ registry[u] # 0 /\ registry[u] # registry[last.args[1]]

\* C2: every render root receives at most one unmount call, and the only root
\* without one is the current root of a connected element.
C2_ExactlyOneUnmount ==
    \A e \in active : \A r \in 1..Len(roots[e]) :
        /\ roots[e][r].unmounts <= 1
        /\ roots[e][r].unmounts = 0 => (r = root[e] /\ isConnected[e])

\* C3: a connect whose attributes decode creates a new live render root, bound to
\* a render target created by this connect and to no earlier root's target, and
\* renders into it the record of the attributes the element carries at the connect.
C3_ReconnectRebuilds ==
    \A e \in active :
        (Ran("connectedCallback", e) /\ DecodeSucceeds(e)) =>
            /\ last.thrown = "none"
            /\ root[e] = Len(roots[e])
            /\ Len(roots[e]) >= 1
            /\ roots[e][root[e]].unmounts = 0
            /\ roots[e][root[e]].container = mountingPoint[e]
            /\ \A q \in 1..(Len(roots[e]) - 1) :
                  roots[e][q].container # mountingPoint[e]
            /\ mountingPoint[e] > Len(lightChildren[e]) + Len(shadowChildren[e]) - 2
            /\ Len(last.render) = 1
            /\ last.render[1].root = root[e]
            /\ last.render[1].props = RecordNow(e)
            /\ InTrace("createRoot") /\ InTrace("render")

\* a third connection of an element whose earlier roots were unmounted
C3_Witness ==
    \E e \in active :
        /\ Ran("connectedCallback", e)
        /\ last.thrown = "none"
        /\ Len(roots[e]) = 3
        /\ roots[e][1].unmounts > 0 /\ roots[e][2].unmounts > 0

\* C4: the options.shadowDOM function is called at most once per element, and
\* this.shadowDOM, once decided, never changes.
C4_IsolationDecidedOnce ==
    [][\A e \in active :
          /\ shadowFnCalls'[e] <= 1
          /\ shadowDOM[e] # <<>> => shadowDOM'[e] = shadowDOM[e]]_vars

\* C5: an attributeChangedCallback neither attaches nor removes the shadow root,
\* does not call the options.shadowDOM function and leaves this.shadowDOM unchanged.
C5_AttributeChangeKeepsIsolation ==
    [][\A e \in active :
          (last'.kind = "attributeChangedCallback" /\ last'.elem = e) =>
              /\ shadowRoot'[e] = shadowRoot[e]
              /\ shadowDOM'[e] = shadowDOM[e]
              /\ shadowFnCalls'[e] = shadowFnCalls[e]
              /\ attachShadowCalls'[e] = attachShadowCalls[e]
              /\ shadowChildren'[e] = shadowChildren[e]]_vars

\* an attribute change re-rendered an element that decided for a shadow root,
\* with attributes for which the option function now says no
C5_Witness ==
    \E e \in active :
        /\ Ran("attributeChangedCallback", e)
        /\ InTrace("render")
        /\ shadowDOM[e] = <<TRUE>> /\ shadowRoot[e]
        /\ Class(e).shadowDOM.kind = "function"
        /\ ~hasShadowDOM(Class(e).shadowDOM, RecordNow(e))

\* C6: a connectedCallback or attributeChangedCallback calls render if and only if
\* it decoded and every key's validator returned a value; the record it renders
\* has every schema key; a failed decode is thrown out of the callback.
C6_NoPartialRender ==
    \A e \in active :
        (Ran("connectedCallback", e) \/ Ran("attributeChangedCallback", e)) =>
            /\ (last.render # <<>>) <=> (Decoded(e) /\ DecodeSucceeds(e))
            /\ (last.render # <<>>) <=> InTrace("render")
            /\ last.render # <<>> => DOMAIN last.render[1].props = Keys(e)
            /\ (Decoded(e) /\ ~DecodeSucceeds(e)) =>
                  last.thrown \in {"Error", "TypeError"}

\* an attribute change whose first key decoded and whose second did not: no render
C6_Witness ==
    \E e \in active :
        /\ Ran("attributeChangedCallback", e)
        /\ Decoded(e)
        /\ ResultNow(e, 1).kind = "value"
        /\ ResultNow(e, 2).kind # "value"
        /\ last.render = <<>>

\* C7: a first connectedCallback whose decode meets issues throws the validation
\* failure and leaves the instance untouched: no shadow root, no render target, no
\* styles target, nothing appended, no render root, no render.
C7_FailedFirstConnectLeavesNothing ==
    \A e \in active :
        (Ran("connectedCallback", e) /\ connects[e] = 1 /\ FirstFailure(e) = "issues") =>
            /\ last.thrown = "Error"
            /\ ~shadowRoot[e] /\ shadowDOM[e] = <<>>
            /\ mountingPoint[e] = 0 /\ stylesMountingPoint[e] = 0
            /\ lightChildren[e] = <<>> /\ shadowChildren[e] = <<>>
            /\ root[e] = 0 /\ roots[e] = <<>>
            /\ last.render = <<>> /\ ~InTrace("render")

\* the first connect of an element registered with shadowDOM: true fails on issues
C7_Witness ==
    \E e \in active :
        /\ Ran("connectedCallback", e) /\ connects[e] = 1
        /\ FirstFailure(e) = "issues"
        /\ Class(e).shadowDOM = OptionBoolean(TRUE)
        /\ last.thrown = "Error"

\* C8: a callback whose decode meets a Promise before any issues throws the
\* TypeError, creates no render root and calls no render.
C8_AsyncFailsBeforeRender ==
    [][\A e \in active :
          (/\ last'.kind \in {"connectedCallback", "attributeChangedCallback"}
           /\ last'.elem = e
           /\ Has(last'.trace, "parseAttributes")
           /\ FirstFailureFor(e, attrs'[e]) = "promise") =>
              /\ last'.thrown = "TypeError"
              /\ last'.parsed.message = "Schema validation must be synchronous"
              /\ last'.render = <<>> /\ ~Has(last'.trace, "render")
              /\ roots'[e] = roots[e] /\ root'[e] = root[e]
              /\ mountingPoint'[e] = mountingPoint[e]]_vars

\* an attribute change on a connected, rendered element met a Promise
C8_Witness ==
    \E e \in active :
        /\ Ran("attributeChangedCallback", e)
        /\ isConnected[e] /\ root[e] # 0
        /\ FirstFailure(e) = "promise"
        /\ last.thrown = "TypeError"

\* C9: an attributeChangedCallback on a connected element that has a render root
\* and whose attributes decode renders the record of the attributes the element
\* carries now into that root.
C9_AttributeChangeRerenders ==
    \A e \in active :
        (/\ Ran("attributeChangedCallback", e)
         /\ isConnected[e] /\ root[e] # 0
         /\ DecodeSucceeds(e)) =>
            /\ Len(last.render) = 1
            /\ last.render[1].root = root[e]
            /\ last.render[1].props = RecordNow(e)

\* an attribute change re-rendered with the changed attribute's new value
C9_Witness ==
    \E e \in active :
        /\ Ran("attributeChangedCallback", e)
        /\ last.thrown = "none"
        /\ Len(last.render) = 1
        /\ roots[e][root[e]].unmounts = 0
        /\ last.args[2] = <<"42">>
        /\ last.render[1].props[count].repr = "42"

\* C10: an attributeChangedCallback on an element that is not connected, or that
\* has no render target yet, decodes nothing, renders nothing, throws nothing and
\* leaves render root, render target, styles target and isolation flag unchanged.
C10_AttributeChangeOnlyWhenMounted ==
    [][\A e \in active :
          (/\ last'.kind = "attributeChangedCallback" /\ last'.elem = e
           /\ (~isConnected[e] \/ mountingPoint[e] = 0)) =>
              /\ last'.trace = <<>>
              /\ last'.thrown = "none"
              /\ last'.render = <<>>
              /\ root'[e] = root[e] /\ roots'[e] = roots[e]
              /\ mountingPoint'[e] = mountingPoint[e]
              /\ stylesMountingPoint'[e] = stylesMountingPoint[e]
              /\ shadowDOM'[e] = shadowDOM[e] /\ shadowRoot'[e] = shadowRoot[e]]_vars

\* during an upgrade, an attributeChangedCallback reached an element that is in the
\* document, before its first connectedCallback, with attributes the schema rejects
C10_Witness ==
    \E e \in active :
        /\ Ran("attributeChangedCallback", e)
        /\ isConnected[e] /\ connects[e] = 0
        /\ FirstFailure(e) = "issues"
        /\ last.trace = <<>> /\ last.thrown = "none"

----------------------------------------------------------------------------
(* C11..C20 *)

\* C11: an attributeChangedCallback that decodes and meets a key whose validator
\* does not return a value throws the failure, calls no render and leaves render
\* root, render target, styles target, shadow root and isolation flag as they were.
C11_FailedAttributeChangeKeepsTree ==
    [][\A e \in active :
          (/\ last'.kind = "attributeChangedCallback" /\ last'.elem = e
           /\ Has(last'.trace, "parseAttributes")
           /\ FirstFailureFor(e, attrs'[e]) # "none") =>
              /\ last'.thrown \in {"Error", "TypeError"}
              /\ last'.render = <<>> /\ ~Has(last'.trace, "render")
              /\ root'[e] = root[e] /\ roots'[e] = roots[e]
              /\ mountingPoint'[e] = mountingPoint[e]
              /\ stylesMountingPoint'[e] = stylesMountingPoint[e]
              /\ shadowRoot'[e] = shadowRoot[e] /\ shadowDOM'[e] = shadowDOM[e]
              /\ lightChildren'[e] = lightChildren[e]
              /\ shadowChildren'[e] = shadowChildren[e]]_vars

\* an attribute change on a connected element with a live root met issues
C11_Witness ==
    \E e \in active :
        /\ Ran("attributeChangedCallback", e)
        /\ isConnected[e] /\ root[e] # 0 /\ roots[e][root[e]].unmounts = 0
        /\ FirstFailure(e) = "issues"
        /\ last.thrown = "Error"

CoreSteps ==
    {"parseAttributes", "hasShadowDOM", "attachShadow", "createElement",
     "createRoot", "append", "render", "unmount"}

LifecycleCallbacks == {"connectedCallback", "disconnectedCallback", "attributeChangedCallback"}

\* the position of step in trace, 0 when it is not there
PositionOf(trace, step) ==
    IF Has(trace, step) THEN CHOOSE i \in 1..Len(trace) : trace[i] = step ELSE 0

\* C12: in every lifecycle callback the mixin's hook of the same name, when it
\* runs, is the last step, after every core step of the callback: after render in
\* connectedCallback and attributeChangedCallback, after unmount in
\* disconnectedCallback; no other mixin hook runs in the callback.
C12_CoreFirstExtensionSecond ==
    \A e \in active : \A kind \in LifecycleCallbacks :
        Ran(kind, e) =>
            LET hook == "super." \o kind
                at == PositionOf(last.trace, hook)
            IN  /\ \A i \in 1..Len(last.trace) :
                      last.trace[i] \in CoreSteps \/ (last.trace[i] = hook /\ i = Len(last.trace))
                /\ (at # 0 /\ kind # "disconnectedCallback") =>
                      (InTrace("render") /\ PositionOf(last.trace, "render") < at)
                /\ (at # 0 /\ kind = "disconnectedCallback" /\ root[e] # 0) =>
                      (InTrace("unmount") /\ PositionOf(last.trace, "unmount") < at)

\* a disconnect unmounted the root and then ran the mixin's hook
C12_Witness ==
    \E e \in active :
        /\ Ran("disconnectedCallback", e)
        /\ last.trace = <<"unmount", "super.disconnectedCallback">>

\* C13: a lifecycle callback that throws nothing invokes the mixin's hook of the
\* same name, when the mixin defines it, exactly once, whatever the state of the
\* element.
C13_HookForEveryCallback ==
    \A e \in active : \A kind \in LifecycleCallbacks :
        (Ran(kind, e) /\ last.thrown = "none" /\ kind \in Class(e).mixin) =>
            Cardinality({i \in 1..Len(last.trace) : last.trace[i] = "super." \o kind}) = 1

\* C14: the hasShadowDom flag of every render is true exactly when the render
\* target of that render was appended into the shadow root.
C14_FlagTellsWhereTargetIs ==
    \A e \in active :
        (last.elem = e /\ last.kind \in LifecycleCallbacks /\ last.render # <<>>) =>
            (last.render[1].hasShadowDom <=>
                last.render[1].containerElement \in
                    {shadowChildren[e][i] : i \in 1..Len(shadowChildren[e])})

\* C15: for every defined tag the observed-attribute list has one name per schema
\* key, the i-th name being toKebabCase of the i-th key (use-shadow for useShadow,
\* count for count); the attribute reactions of an upgrade name observed attributes.
C15_ObservedNamesFollowSchema ==
    \A t \in DOMAIN registry :
        registry[t] # 0 =>
            LET attributeSchema == Registrations[registry[t]].schema
                names == observedAttributes(attributeSchema)
            IN  /\ DOMAIN names = 1..Len(attributeSchema)
                /\ \A i \in 1..Len(attributeSchema) :
                      /\ names[i] = toKebabCase(attributeSchema[i].key)
                      /\ attributeSchema[i].key = useShadow =>
                            names[i] = <<"u","s","e","-","s","h","a","d","o","w">>
                      /\ attributeSchema[i].key = count => names[i] = count
                /\ \A e \in active : \A q \in 1..Len(reactions[e]) :
                      (tagOf[e] = t /\ reactions[e][q].kind = "attributeChanged") =>
                          \E i \in 1..Len(names) : names[i] = reactions[e][q].name

\* an element of a class whose schema lists count before useShadow was upgraded
\* and has one reaction queued per observed attribute, in that order
C15_Witness ==
    \E e \in active :
        /\ Ran("upgrade", e)
        /\ Class(e).schema[1].key = count
        /\ Len(reactions[e]) >= 2
        /\ reactions[e][1].name = count
        /\ reactions[e][2].name = toKebabCase(useShadow)

\* the latest step ran parseAttributes in a callback of e
DecodedIn(e) ==
    /\ last.elem = e
    /\ last.kind \in {"connectedCallback", "attributeChangedCallback"}
    /\ InTrace("parseAttributes")

\* C16: the record of a successful parseAttributes has the schema's keys and no
\* others; the entry of a key is the value its validator returns for the attribute
\* read under toKebabCase of the key; a string validator gets the string back
\* as it is, and only a coercing validator turns "42" into the number 42.
C16_RecordIsValidatorOutput ==
    \A e \in active :
        (DecodedIn(e) /\ last.parsed.thrown = "none") =>
            LET attributeSchema == Class(e).schema
                record == last.parsed.attributes
            IN  /\ DOMAIN record = Keys(e)
                /\ Cardinality(DOMAIN record) = Len(attributeSchema)
                /\ \A i \in 1..Len(attributeSchema) :
                      LET key == attributeSchema[i].key
                          raw == attrs[e][toKebabCase(key)]
                      IN  /\ ResultNow(e, i).kind = "value"
                          /\ record[key] = ResultNow(e, i).value
                          /\ (raw # <<>> /\ attributeSchema[i].validator \in
                                    {"z.string().optional()", "z.string().default('Guest')"}) =>
                                record[key] = JSString(raw[1])
                          /\ (raw = <<"42">> /\ attributeSchema[i].validator \in
                                    {"z.coerce.number()", "z.coerce.number().default(0)"}) =>
                                record[key] = JSNumber("42")

\* count="42" and use-shadow="42" decoded by a number-coercing and a string
\* validator: the number 42 and the string "42"
C16_Witness ==
    \E e \in active :
        /\ DecodedIn(e) /\ last.parsed.thrown = "none"
        /\ attrs[e][count] = <<"42">> /\ attrs[e][toKebabCase(useShadow)] = <<"42">>
        /\ last.parsed.attributes[count] = JSNumber("42")
        /\ last.parsed.attributes[useShadow] = JSString("42")

\* what parseAttributes is to hand the validator of a key for the attributes a:
\* undefined for an absent attribute, the string itself for a present one
SuppliedInput(a, key) ==
    IF a[toKebabCase(key)] = <<>> THEN JSUndefined ELSE JSString(a[toKebabCase(key)][1])

\* C17: every validator parseAttributes invokes answers as it does for undefined
\* when the attribute is absent and as it does for the attribute's string, the
\* empty string included, when it is present; so an absent attribute gives the
\* default of a validator with a default and undefined for an optional one.
C17_AbsentIsUndefined ==
    \A e \in active :
        DecodedIn(e) =>
            LET attributeSchema == Class(e).schema
                parsed == last.parsed
                expected(i) == validate(attributeSchema[i].validator,
                                        SuppliedInput(attrs[e], attributeSchema[i].key))
            IN  /\ Len(parsed.validated) <= Len(attributeSchema)
                /\ \A i \in 1..Len(parsed.validated) :
                      /\ parsed.validated[i] = attributeSchema[i].key
                      /\ IF i = Len(parsed.validated) /\ parsed.thrown # "none"
                         THEN /\ expected(i).kind # "value"
                              /\ parsed.thrown = "Error" => parsed.message = expected(i).issues
                         ELSE /\ expected(i).kind = "value"
                              /\ parsed.attributes[attributeSchema[i].key] = expected(i).value
                /\ parsed.thrown = "none" =>
                      \A i \in 1..Len(attributeSchema) :
                          LET key == attributeSchema[i].key
                              validator == attributeSchema[i].validator
                              raw == attrs[e][toKebabCase(key)]
                          IN  /\ (raw = <<>> /\ validator = "z.string().default('Guest')") =>
                                    parsed.attributes[key] = JSString("Guest")
                              /\ (raw = <<>> /\ validator = "z.string().optional()") =>
                                    parsed.attributes[key] = JSUndefined
                              /\ (raw = <<"">> /\ validator = "z.string().default('Guest')") =>
                                    parsed.attributes[key] = JSString("")

\* a decode with use-shadow absent under a default of 'Guest' and count present
\* but empty: 'Guest' and the number of the empty string
C17_Witness ==
    \E e \in active :
        /\ DecodedIn(e) /\ last.parsed.thrown = "none"
        /\ \E i \in 1..Len(Class(e).schema) :
              /\ Class(e).schema[i].key = useShadow
              /\ Class(e).schema[i].validator = "z.string().default('Guest')"
        /\ attrs[e][toKebabCase(useShadow)] = <<>>
        /\ attrs[e][count] = <<"">>
        /\ last.parsed.attributes[useShadow] = JSString("Guest")
        /\ last.parsed.attributes[count] = JSNumber("0")

\* C18: the boolean helpers map the string "false" to false and every other
\* string, empty or not, to true.
C18_OnlyFalseIsFalse ==
    /\ last.kind = "transformBoolean" => last.output = (last.input # "false")
    /\ (last.kind = "attributeBoolean" /\ last.input.type = "string") =>
          last.output = Success(JSBoolean(last.input.repr # "false"))

HyphenBetween(n, out, i) ==
    \E j \in 1..(Len(out) - 2) :
        /\ out[j] = ToLowerChar(n[i])
        /\ out[j + 1] = "-"
        /\ out[j + 2] = ToLowerChar(n[i + 1])
        /\ Cardinality({k \in 1..j : out[k] # "-"}) = i

\* C20: toKebabCase of a name, in its current and its earlier form, has no
\* uppercase letter, has a hyphen at every
\* place where a lowercase letter is followed by an uppercase one, is the
\* lowercased name once the hyphens are taken out, and is its own toKebabCase.
C20_KebabLowerHyphenIdempotent ==
    last.kind \in {"toKebabCase", "toKebabCaseOnePass"} =>
        LET n == last.input
            out == last.output
        IN  /\ \A j \in 1..Len(out) : out[j] \notin Upper
            /\ \A i \in 1..(Len(n) - 1) :
                  (n[i] \in Lower /\ n[i + 1] \in Upper) => HyphenBetween(n, out, i)
            /\ SelectSeq(out, LAMBDA c : c # "-") = toLowerCase(n)
            /\ last.kind = "toKebabCase" => toKebabCase(out) = out
            /\ last.kind = "toKebabCaseOnePass" => toKebabCaseOnePass(out) = out

\* a name with a lowercase-uppercase boundary followed by an uppercase run
C20_Witness ==
    /\ last.kind = "toKebabCase"
    /\ last.input = <<"a", "A", "B", "a">>
    /\ last.output = <<"a", "-", "a", "-", "b", "a">>

----------------------------------------------------------------------------
(* C21..C30 *)

RenderedIn(e) ==
    last.elem = e /\ last.kind \in LifecycleCallbacks /\ last.render # <<>>

\* C22: every render call is made on this.root with the record of the attributes
\* the element carries, and its context has the element itself, this.mountingPoint
\* (the node this.root was created on), this.stylesMountingPoint and
\* Boolean(this.shadowDOM).
C22_RenderHandsRecordAndContext ==
    \A e \in active :
        RenderedIn(e) =>
            LET call == last.render[1]
            IN  /\ Len(last.render) = 1
                /\ call.root = root[e]
                /\ call.props = RecordNow(e)
                /\ call.element = e
                /\ call.containerElement = mountingPoint[e]
                /\ roots[e][root[e]].container = mountingPoint[e]
                /\ call.stylesContainer = stylesMountingPoint[e]
                /\ call.stylesContainer # call.containerElement
                /\ call.hasShadowDom = (shadowDOM[e] = <<TRUE>>)

\* an attribute change re-rendered an element on its second render root
C22_Witness ==
    \E e \in active :
        /\ RenderedIn(e)
        /\ last.kind = "attributeChangedCallback"
        /\ root[e] = 2
        /\ last.render[1].hasShadowDom

\* the four fields of a context object or of the props of a provider
FourFields(c) == <<c.containerElement, c.element, c.hasShadowDom, c.stylesContainer>>

\* C23: a rerender of the provider with the four props unchanged gives the
\* consumer the very object of the render before; a rerender with any of them
\* changed gives it another object; either way the object carries the props.
C23_ContextIdentityFollowsFields ==
    [][(last.kind = "WebComponentContextProvider"
            /\ last'.kind = "WebComponentContextProvider") =>
          /\ FourFields(last'.output) = FourFields(last'.input)
          /\ IF FourFields(last'.input) = FourFields(last.input)
             THEN last'.output = last.output /\ ~last'.recomputed
             ELSE last'.output.id # last.output.id /\ last'.recomputed]_vars

\* a rerender that left the props alone, after one that changed them
C23_Witness ==
    /\ last.kind = "WebComponentContextProvider"
    /\ ~last.recomputed
    /\ last.output.id = 2

\* C24: useWebComponentContext with no provider above returns the default
\* object: containerElement and element document.body, stylesContainer
\* document.head, hasShadowDom true.
C24_DefaultContext ==
    (last.kind = "useWebComponentContext" /\ last.input = <<>>) =>
        /\ last.output.element = "document.body"
        /\ last.output.containerElement = "document.body"
        /\ last.output.stylesContainer = "document.head"
        /\ last.output.hasShadowDom = TRUE

\* the hook was read outside every provider
C24_Witness ==
    /\ last.kind = "useWebComponentContext"
    /\ last.input = <<>>
    /\ last.output.id = 0

C26_NoTerminalState ==
    \A e \in active :
        /\ (Ran("connectedCallback", e) /\ DecodeSucceeds(e)) =>
              /\ last.thrown = "none"
              /\ isConnected[e]
              /\ root[e] # 0 /\ roots[e][root[e]].unmounts = 0
              /\ RenderedIn(e) /\ last.render[1].root = root[e]
              /\ ~last.render[1].unmounted
        /\ Ran("disconnectedCallback", e) =>
              /\ last.thrown = "none"
              /\ ~isConnected[e]
              /\ \A r \in 1..Len(roots[e]) : roots[e][r].unmounts > 0

\* the third connect succeeded after an earlier connect had failed
C26_Witness ==
    \E e \in active :
        /\ Ran("connectedCallback", e) /\ last.thrown = "none"
        /\ connects[e] = 3
        /\ Len(roots[e]) = 2
        /\ roots[e][2].unmounts = 0

\* C27: attachShadow is called at most once per element; an element that has a
\* shadow root keeps it, and a connectedCallback that finds one calls no
\* attachShadow and appends its styles target and render target into it.
C27_ShadowRootCreatedOnce ==
    [][\A e \in active :
          /\ attachShadowCalls'[e] <= 1
          /\ shadowRoot'[e] <=> attachShadowCalls'[e] = 1
          /\ shadowRoot[e] =>
                /\ shadowRoot'[e]
                /\ attachShadowCalls'[e] = attachShadowCalls[e]
                /\ (last'.kind = "connectedCallback" /\ last'.elem = e
                        /\ last'.thrown = "none") =>
                      /\ ~Has(last'.trace, "attachShadow")
                      /\ lightChildren'[e] = lightChildren[e]
                      /\ shadowChildren'[e] =
                            shadowChildren[e]
                            \o <<stylesMountingPoint'[e], mountingPoint'[e]>>
                      /\ mountingPoint'[e] # mountingPoint[e]]_vars

\* a reconnect appended a second pair of targets into the shadow root
C27_Witness ==
    \E e \in active :
        /\ Ran("connectedCallback", e) /\ last.thrown = "none"
        /\ shadowRoot[e] /\ attachShadowCalls[e] = 1
        /\ Len(shadowChildren[e]) = 4
        /\ shadowDOM[e] = <<TRUE>>

\* C28: every render call is made on a render root that has not been unmounted.
C28_NoRenderOnUnmountedRoot ==
    \A e \in active :
        RenderedIn(e) =>
            /\ ~last.render[1].unmounted
            /\ last.thrown # "UnmountedRootError"

\* the nodes of the container of e: of its shadow root if it has one, else of e
ContainerChildren(e) ==
    IF shadowRoot[e] THEN shadowChildren[e] ELSE lightChildren[e]

\* C29: the container of an element that has connected holds its current styles
\* target and render target and no other node; no node created by a
\* connectedCallback is anywhere else.
C29_OneTargetPair ==
    \A e \in active :
        mountingPoint[e] # 0 =>
            /\ ContainerChildren(e) = <<stylesMountingPoint[e], mountingPoint[e]>>
            /\ Len(lightChildren[e]) + Len(shadowChildren[e]) = 2

\* the render roots of e that were created and not unmounted
LiveRoots(e) == {r \in 1..Len(roots[e]) : roots[e][r].unmounts = 0}

\* C30: an element has at most one live render root, which is this.root of a
\* connected element; an element that is not connected has none.
C30_AtMostOneLiveRoot ==
    \A e \in active :
        /\ Cardinality(LiveRoots(e)) <= 1
        /\ LiveRoots(e) \subseteq {root[e]}
        /\ ~isConnected[e] => LiveRoots(e) = {}
        /\ Ran("disconnectedCallback", e) => LiveRoots(e) = {}

\* a disconnect ended the second render root of an element
C30_Witness ==
    \E e \in active :
        /\ Ran("disconnectedCallback", e)
        /\ Len(roots[e]) = 2
        /\ roots[e][1].unmounts = 1
        /\ roots[e][2].unmounts = 1

----------------------------------------------------------------------------
(* C31..C35 *)

\* the latest step is a connectedCallback of e that threw nothing
Connected(e) == Ran("connectedCallback", e) /\ last.thrown = "none"

\* C31 as the specification orders it: a successful connectedCallback inserts the
\* targets into the container before it creates the render root.
C31_InsertBeforeRoot ==
    \A e \in active :
        Connected(e) =>
            /\ PositionOf(last.trace, "parseAttributes") = 1
            /\ PositionOf(last.trace, "hasShadowDOM") = 2
            /\ PositionOf(last.trace, "createElement") < PositionOf(last.trace, "append")
            /\ PositionOf(last.trace, "append") < PositionOf(last.trace, "createRoot")
            /\ PositionOf(last.trace, "createRoot") < PositionOf(last.trace, "render")

\* C31: a successful connectedCallback runs parseAttributes, hasShadowDOM,
\* attachShadow when it attaches, the creation of the two targets, createRoot on
\* the render target, the append of the targets into the container, render, and
\* the mixin's connectedCallback when there is one, in this order and nothing else.
C31_ConnectOrder ==
    \A e \in active :
        Connected(e) =>
            \E attach \in {<<>>, <<"attachShadow">>} :
                /\ last.trace =
                      <<"parseAttributes", "hasShadowDOM">> \o attach
                      \o <<"createElement", "createRoot", "append", "render">>
                      \o (IF "connectedCallback" \in Class(e).mixin
                          THEN <<"super.connectedCallback">> ELSE <<>>)
                /\ attach # <<>> => (shadowDOM[e] = <<TRUE>> /\ attachShadowCalls[e] = 1)

\* a connect that attached a shadow root and ran the mixin's hook
C31_Witness ==
    \E e \in active :
        /\ Connected(e)
        /\ InTrace("attachShadow")
        /\ InTrace("super.connectedCallback")

\* C32: no other name has the DOM name of the name toKebabCase was called with.
C32_DistinctNamesDistinctDomNames ==
    last.kind = "toKebabCase" =>
        \A b \in Names : b # last.input => toKebabCase(b) # last.output

\* C33: a lifecycle callback of one element leaves render root, render roots,
\* render target, styles target, shadow root, isolation flag, child nodes and
\* attributes of every other element as they were, and leaves the registered
\* class and its schema as they were.
C33_InstancesOwnTheirState ==
    [][last'.kind \in LifecycleCallbacks =>
          /\ registry' = registry
          /\ \A o \in active \ {last'.elem} :
                /\ root'[o] = root[o]
                /\ roots'[o] = roots[o]
                /\ mountingPoint'[o] = mountingPoint[o]
                /\ stylesMountingPoint'[o] = stylesMountingPoint[o]
                /\ shadowRoot'[o] = shadowRoot[o]
                /\ shadowDOM'[o] = shadowDOM[o]
                /\ lightChildren'[o] = lightChildren[o]
                /\ shadowChildren'[o] = shadowChildren[o]
                /\ attrs'[o] = attrs[o]
                /\ connects'[o] = connects[o]]_vars

\* one element was disconnected while the other one is connected with a live root
C33_Witness ==
    \E e \in active : \E o \in active \ {e} :
        /\ Ran("disconnectedCallback", e) /\ InTrace("unmount")
        /\ isConnected[o]
        /\ root[o] # 0 /\ roots[o][root[o]].unmounts = 0

\* the positions of the schema of e whose validator does not return a value for
\* the attributes e carries now
FailingKeys(e) == {i \in 1..Len(Class(e).schema) : ResultNow(e, i).kind # "value"}

\* C34: parseAttributes invokes the validators in schema key order and stops at
\* the first key whose result is a promise or has issues: the validators invoked
\* are those of the keys up to that one and of no later key, a promise throws the
\* TypeError 'Schema validation must be synchronous', issues throw an Error with
\* the issue list of that key, the callback throws it and renders nothing; with
\* no such key every validator is invoked once, in order, and nothing is thrown.
C34_FailFastInKeyOrder ==
    \A e \in active :
        DecodedIn(e) =>
            LET attributeSchema == Class(e).schema
                parsed == last.parsed
                upTo(n) == [i \in 1..n |-> attributeSchema[i].key]
            IN  IF FailingKeys(e) = {}
                THEN /\ parsed.thrown = "none"
                     /\ parsed.validated = upTo(Len(attributeSchema))
                ELSE LET first == CHOOSE i \in FailingKeys(e) : \A j \in FailingKeys(e) : i <= j
                         result == ResultNow(e, first)
                     IN  /\ parsed.validated = upTo(first)
                         /\ result.kind = "promise" =>
                               /\ parsed.thrown = "TypeError"
                               /\ parsed.message = "Schema validation must be synchronous"
                         /\ result.kind = "issues" =>
                               /\ parsed.thrown = "Error"
                               /\ parsed.message = result.issues
                         /\ last.thrown = parsed.thrown
                         /\ last.render = <<>>
                         /\ ~InTrace("render")

\* a decode that threw the issues of its first key and never invoked the
\* validator of its second key, which would have returned a promise
C34_Witness ==
    \E e \in active :
        /\ DecodedIn(e)
        /\ Len(Class(e).schema) = 2
        /\ ResultNow(e, 1).kind = "issues"
        /\ ResultNow(e, 2).kind = "promise"
        /\ last.parsed.thrown = "Error"
        /\ last.parsed.validated = <<Class(e).schema[1].key>>

\* C35: a disconnectedCallback of an element for which no render root was ever
\* created (every connectedCallback so far threw in parseAttributes) calls no
\* unmount, throws nothing, leaves the fields, the render roots and the child
\* nodes as they were, and calls the mixin's disconnectedCallback exactly when
\* the mixin defines one.
C35_DisconnectWithoutRoot ==
    [][\A e \in active :
          (last'.kind = "disconnectedCallback" /\ last'.elem = e /\ roots[e] = <<>>) =>
              /\ ~Has(last'.trace, "unmount")
              /\ last'.thrown = "none"
              /\ fieldVars' = fieldVars
              /\ roots' = roots
              /\ lightChildren' = lightChildren
              /\ shadowChildren' = shadowChildren
              /\ last'.trace = IF "disconnectedCallback" \in Class(e).mixin
                               THEN <<"super.disconnectedCallback">> ELSE <<>>]_vars

\* an element whose only connectedCallback threw was removed from the document:
\* no root, no unmount, and the mixin's hook ran
C35_Witness ==
    \E e \in active :
        /\ Ran("disconnectedCallback", e)
        /\ connects[e] = 1
        /\ root[e] = 0 /\ roots[e] = <<>> /\ mountingPoint[e] = 0
        /\ last.thrown = "none"
        /\ last.trace = <<"super.disconnectedCallback">>

====
